---- MODULE Spec2Model ----
(***************************************************************************)
(* Crazy Eights game controller (src/src/App.tsx) as a state machine.      *)
(*                                                                         *)
(* The controller is a React function component.  Its state is the ten     *)
(* useState cells.  Every click handler and every setTimeout callback is   *)
(* one atomic step: it reads the state cells through the closure of the    *)
(* render that created it, and every setX(v) it calls writes the value v   *)
(* computed from that closure over the current cell (batched updates).     *)
(* A click handler's closure is the current render; a timer callback's     *)
(* closure is the render in which the timer was scheduled, kept in the     *)
(* timer record as env / pLen / aLen.  After each step the component       *)
(* re-renders and the AI-turn effect runs when one of its dependencies     *)
(* changed.  Updates made in one callback are applied together, as React   *)
(* 18 and later do for timers as well as for clicks.                       *)
(*                                                                         *)
(* Time is counted in ticks of 500 ms, the common divisor of the three     *)
(* delays of the source (1000, 1500, 2000 ms).  Timers that are due fire   *)
(* before time advances, in creation order; clicks may come at any time.   *)
(***************************************************************************)
EXTENDS Naturals, Sequences, FiniteSets, TLC

VARIABLES deck, playerHand, aiHand, discardPile, currentSuit, turn, status,
          showSuitSelector, message, isAiThinking, timers, last, clicks

vars == <<deck, playerHand, aiHand, discardPile, currentSuit, turn, status,
          showSuitSelector, message, isAiThinking, timers, last, clicks>>

(***************************************************************************)
(* Bounds of the model.  The source plays 4 suits x 13 ranks and deals 8   *)
(* cards to each side; the model keeps the 4 suits, takes the first        *)
(* NumRanks ranks of RankNames (the Eight among them) and deals HandSize   *)
(* cards to each side.                                                     *)
(***************************************************************************)
NumRanks == 3

HandSize == 2

NumShuffles == 3

\* The player clicks (a card, the draw pile, a suit, restart) at most MaxClicks times.
MaxClicks == 5

\* Clicks of a player who lets every hand-off delay pass (specification Paced).
MaxPacedClicks == 7

(***************************************************************************)
(* Domain types and deck utilities (./types and ./constants).              *)
(***************************************************************************)
SuitNames == <<"hearts", "diamonds", "clubs", "spades">>

Suits == {SuitNames[i] : i \in 1..Len(SuitNames)}

RankNames == <<"8", "7", "K", "A", "2", "3", "4", "5", "6", "9", "10", "J", "Q">>

EIGHT == "8"

SPADES == "spades"

NumCards == Len(SuitNames) * NumRanks

Cards == 1..NumCards

SuitOf(c) == SuitNames[((c - 1) \div NumRanks) + 1]

RankOf(c) == RankNames[((c - 1) % NumRanks) + 1]

\* createDeck: one card per (suit, rank) pair, suits outermost.
createDeck == [i \in 1..NumCards |-> i]

\* The strides and offsets of the permutations the model draws a shuffle from.
ShuffleStride == <<5, 7, 11, 1, 5, 7>>

ShuffleOffset == <<0, 3, 7, 2, 7, 1>>

\* shuffleDeck: a permutation of its argument; the k-th of a bounded family.
shuffleDeck(d, k) ==
    [i \in 1..Len(d) |-> d[(((i - 1) * ShuffleStride[k] + ShuffleOffset[k]) % Len(d)) + 1]]

(***************************************************************************)
(* Sequence helpers standing for the array methods the source uses.        *)
(***************************************************************************)
Range(s) == {s[i] : i \in 1..Len(s)}

\* Array.prototype.filter with the predicate c.id !== id
FilterOut(s, id) == SelectSeq(s, LAMBDA c : c # id)

Top(pile) == pile[Len(pile)]

Other(side) == IF side = "player" THEN "ai" ELSE "player"

\* The delays of the source, in ticks of 500 ms.
TurnDelay == 1000 \div 500

EightDelay == 1500 \div 500

ThinkDelay == 2000 \div 500

\* The state cells as the closure of the current render sees them.
Cur ==
    [deck |-> deck, playerHand |-> playerHand, aiHand |-> aiHand,
     discardPile |-> discardPile, currentSuit |-> currentSuit, turn |-> turn,
     status |-> status, showSuitSelector |-> showSuitSelector,
     message |-> message, isAiThinking |-> isAiThinking]

\* The closure of a timer callback that reads no card state.
NoEnv ==
    [deck |-> <<>>, playerHand |-> <<>>, aiHand |-> <<>>, discardPile |-> <<>>,
     currentSuit |-> "none"]

\* What a callback reads of the render that scheduled it.
Closure(env) ==
    [deck |-> env.deck, playerHand |-> env.playerHand, aiHand |-> env.aiHand,
     discardPile |-> env.discardPile, currentSuit |-> env.currentSuit]

\* A pending setTimeout callback.  kind: "check" = if (!checkWin()) setTurn(to),
\* "turn" = setTurn(to), "ai" = the opponent's decision.  who: the side whose
\* move scheduled it; src: "play", "eight", "suit", "draw" or "think".
\* Two fields only observe: emptied = the play that scheduled it left the hand
\* of who empty; stale = a restart came while it was pending.
Timer(kind, delay, who, src, to, env) ==
    [kind |-> kind, left |-> delay, who |-> who, src |-> src, to |-> to,
     pLen |-> Len(env.playerHand), aLen |-> Len(env.aiHand),
     env |-> IF kind = "ai" THEN Closure(env) ELSE NoEnv,
     emptied |-> FALSE, stale |-> FALSE]

(***************************************************************************)
(* initGame: the set calls of a (re)start with the k-th shuffle.           *)
(***************************************************************************)
RECURSIVE FirstNonEight(_, _)
FirstNonEight(d, i) ==
    IF RankOf(d[i]) = EIGHT THEN FirstNonEight(d, i + 1) ELSE i

\* initGame without the scan of lines 32-35: the first card left after the
\* deal starts the discard pile.
initGameNoScan(k) ==
    LET fullDeck == shuffleDeck(createDeck, k)
        pHand == SubSeq(fullDeck, 1, HandSize)
        aHand == SubSeq(fullDeck, HandSize + 1, 2 * HandSize)
        rest == SubSeq(fullDeck, 2 * HandSize + 1, Len(fullDeck))
        firstDiscard == rest[1]
    IN [deck |-> Tail(rest),
        playerHand |-> pHand,
        aiHand |-> aHand,
        discardPile |-> <<firstDiscard>>,
        currentSuit |-> SuitOf(firstDiscard),
        turn |-> "player",
        status |-> "playing",
        message |-> "yourTurn",
        showSuitSelector |-> FALSE,
        isAiThinking |-> FALSE]

initGame(k) ==
    LET fullDeck == shuffleDeck(createDeck, k)
        pHand == SubSeq(fullDeck, 1, HandSize)
        aHand == SubSeq(fullDeck, HandSize + 1, 2 * HandSize)
        rest == SubSeq(fullDeck, 2 * HandSize + 1, Len(fullDeck))
        firstDiscardIndex == FirstNonEight(rest, 1)
        firstDiscard == rest[firstDiscardIndex]
    IN [deck |-> SubSeq(rest, 1, firstDiscardIndex - 1)
                    \o SubSeq(rest, firstDiscardIndex + 1, Len(rest)),
        playerHand |-> pHand,
        aiHand |-> aHand,
        discardPile |-> <<firstDiscard>>,
        currentSuit |-> SuitOf(firstDiscard),
        turn |-> "player",
        status |-> "playing",
        message |-> "yourTurn",
        showSuitSelector |-> FALSE,
        isAiThinking |-> FALSE]

(***************************************************************************)
(* checkWin, as memoized on [playerHand.length, aiHand.length]: the        *)
(* status it sets, or "none" when it returns false.                        *)
(***************************************************************************)
checkWin(pLen, aLen) ==
    IF pLen = 0 THEN "player_won"
    ELSE IF aLen = 0 THEN "ai_won"
    ELSE "none"

\* canPlay asking for the suit and the rank to match.
canPlaySuitAndRank(env, card) ==
    \/ RankOf(card) = EIGHT
    \/ /\ SuitOf(card) = env.currentSuit
       /\ RankOf(card) = RankOf(Top(env.discardPile))

canPlay(env, card) ==
    \/ RankOf(card) = EIGHT
    \/ SuitOf(card) = env.currentSuit
    \/ RankOf(card) = RankOf(Top(env.discardPile))

(***************************************************************************)
(* A handler's result: set = the cells it sets (last call wins), timers =  *)
(* the callbacks it schedules.                                             *)
(***************************************************************************)
drawCard(env, target) ==
    IF Len(env.deck) = 0
    THEN [set |-> [message |-> "deckEmpty", turn |-> Other(target)],
          timers |-> <<>>]
    ELSE LET drawnCard == env.deck[Len(env.deck)]
             newDeck == SubSeq(env.deck, 1, Len(env.deck) - 1)
         IN IF target = "player"
            THEN [set |-> [deck |-> newDeck,
                           playerHand |-> Append(env.playerHand, drawnCard),
                           message |-> "youDrew"],
                  timers |-> IF ~canPlay(env, drawnCard)
                             THEN <<Timer("turn", TurnDelay, "player", "draw", "ai", env)>>
                             ELSE <<>>]
            ELSE [set |-> [deck |-> newDeck,
                           aiHand |-> Append(env.aiHand, drawnCard),
                           message |-> "aiDrew"],
                  timers |-> <<>>]

\* The number of cards of suit s in hand.
SuitCount(hand, s) == Cardinality({i \in 1..Len(hand) : SuitOf(hand[i]) = s})

\* Object.keys(suitCounts).sort((a, b) => suitCounts[b] - suitCounts[a])[0] || SPADES:
\* the keys are in order of first appearance in the hand and the sort is stable.
bestSuit(hand) ==
    IF hand = <<>> THEN SPADES
    ELSE LET best == CHOOSE i \in 1..Len(hand) :
                        /\ \A j \in 1..Len(hand) :
                              SuitCount(hand, SuitOf(hand[j])) <= SuitCount(hand, SuitOf(hand[i]))
                        /\ \A j \in 1..(i - 1) :
                              SuitCount(hand, SuitOf(hand[j])) < SuitCount(hand, SuitOf(hand[i]))
         IN SuitOf(hand[best])

playCard(env, card, target) ==
    LET hands == IF target = "player"
                 THEN [playerHand |-> FilterOut(env.playerHand, card)]
                 ELSE [aiHand |-> FilterOut(env.aiHand, card)]
        pile == [discardPile |-> Append(env.discardPile, card)]
        emptied == IF target = "player" THEN hands.playerHand = <<>>
                   ELSE hands.aiHand = <<>>
    IN IF RankOf(card) = EIGHT
       THEN IF target = "player"
            THEN [set |-> hands @@ pile @@
                          [currentSuit |-> SuitOf(card), showSuitSelector |-> TRUE,
                           message |-> "chooseSuit"],
                  timers |-> <<>>]
            ELSE [set |-> hands @@ pile @@
                          [currentSuit |-> bestSuit(env.aiHand), message |-> "aiEight"],
                  timers |-> <<[Timer("check", EightDelay, target, "eight", "player", env)
                                EXCEPT !.emptied = emptied]>>]
       ELSE [set |-> hands @@ pile @@
                     [currentSuit |-> SuitOf(card), message |-> "played"],
             timers |-> <<[Timer("check", TurnDelay, target, "play", Other(target), env)
                           EXCEPT !.emptied = emptied]>>]

handleSuitSelect(env, suit) ==
    [set |-> [currentSuit |-> suit, showSuitSelector |-> FALSE, message |-> "youChose"],
     timers |-> <<Timer("check", TurnDelay, "player", "suit", "ai", env)>>]

\* aiHand.filter(canPlay), then the non-Eights of it
Playable(env, hand) == SelectSeq(hand, LAMBDA c : canPlay(env, c))

NonEights(s) == SelectSeq(s, LAMBDA c : RankOf(c) # EIGHT)

cardToPlay(env) ==
    LET playableCards == Playable(env, env.aiHand)
        nonEights == NonEights(playableCards)
    IN IF Len(nonEights) > 0 THEN nonEights[1] ELSE playableCards[1]

\* The callback of the opponent's thinking timer.
aiDecide(env) ==
    LET playableCards == Playable(env, env.aiHand)
        done == [isAiThinking |-> FALSE]
    IN IF Len(playableCards) > 0
       THEN LET r == playCard(env, cardToPlay(env), "ai")
            IN [set |-> done @@ r.set, timers |-> r.timers,
                op |-> "play", card |-> cardToPlay(env)]
       ELSE IF Len(env.deck) > 0
            THEN LET r == drawCard(env, "ai")
                 IN [set |-> done @@ r.set,
                     timers |-> r.timers \o
                                <<Timer("turn", TurnDelay, "ai", "draw", "player", env)>>,
                     op |-> "draw", card |-> env.deck[Len(env.deck)]]
            ELSE [set |-> done @@ [message |-> "noMoves", turn |-> "player"],
                  timers |-> <<>>, op |-> "noMoves", card |-> 0]

\* handOff with the turn left with the side that moved.
handOffKeepsTurn(t) ==
    IF t.kind = "check" /\ checkWin(t.pLen, t.aLen) # "none"
    THEN [set |-> [status |-> checkWin(t.pLen, t.aLen),
                   message |-> IF checkWin(t.pLen, t.aLen) = "player_won"
                               THEN "youWon" ELSE "aiWon"],
          timers |-> <<>>]
    ELSE [set |-> [turn |-> t.who], timers |-> <<>>]

\* The callback of a "check" or "turn" timer.
handOff(t) ==
    IF t.kind = "check" /\ checkWin(t.pLen, t.aLen) # "none"
    THEN [set |-> [status |-> checkWin(t.pLen, t.aLen),
                   message |-> IF checkWin(t.pLen, t.aLen) = "player_won"
                               THEN "youWon" ELSE "aiWon"],
          timers |-> <<>>]
    ELSE [set |-> [turn |-> t.to], timers |-> <<>>]

(***************************************************************************)
(* Rendering: the cells after a batch of set calls, and the AI-turn        *)
(* effect with dependencies [turn, aiHand, status, discardPile,            *)
(* currentSuit, deck.length] (arrays compared by identity: any setAiHand   *)
(* or setDiscardPile is a change).                                         *)
(***************************************************************************)
Apply(cur, set) == set @@ cur

\* The dependency list of line 162 without turn.
depsChangedNoTurn(cur, set) ==
    \/ "aiHand" \in DOMAIN set
    \/ "discardPile" \in DOMAIN set
    \/ "status" \in DOMAIN set /\ set.status # cur.status
    \/ "currentSuit" \in DOMAIN set /\ set.currentSuit # cur.currentSuit
    \/ "deck" \in DOMAIN set /\ Len(set.deck) # Len(cur.deck)

depsChanged(cur, set) ==
    \/ "aiHand" \in DOMAIN set
    \/ "discardPile" \in DOMAIN set
    \/ "turn" \in DOMAIN set /\ set.turn # cur.turn
    \/ "status" \in DOMAIN set /\ set.status # cur.status
    \/ "currentSuit" \in DOMAIN set /\ set.currentSuit # cur.currentSuit
    \/ "deck" \in DOMAIN set /\ Len(set.deck) # Len(cur.deck)

aiEffectRuns(ns) == ns.turn = "ai" /\ ns.status = "playing" /\ ~ns.isAiThinking

\* One step: the set calls of a handler, the render, the effect.
Commit(res, pending, ev) ==
    LET ns == Apply(Cur, res.set)
        run == depsChanged(Cur, res.set) /\ aiEffectRuns(ns)
    IN /\ deck' = ns.deck
       /\ playerHand' = ns.playerHand
       /\ aiHand' = ns.aiHand
       /\ discardPile' = ns.discardPile
       /\ currentSuit' = ns.currentSuit
       /\ turn' = ns.turn
       /\ status' = ns.status
       /\ showSuitSelector' = ns.showSuitSelector
       /\ message' = ns.message
       /\ isAiThinking' = (run \/ ns.isAiThinking)
       /\ timers' = pending \o res.timers \o
                    (IF run THEN <<Timer("ai", ThinkDelay, "ai", "think", "player", ns)>>
                     ELSE <<>>)
       /\ last' = ev

\* What the last step was: op = "play", "draw", "skip", "noMoves", "suit",
\* "restart", "handoff" (a callback set the turn), "win" (a callback set the
\* status), "tick"; by = "click", "timer", "clock"; for a callback, src and
\* emptied are those of its timer.
Event(op, by, side, card) ==
    [op |-> op, by |-> by, side |-> side, card |-> card, src |-> "none",
     emptied |-> FALSE]

TimerEvent(op, t) ==
    [op |-> op, by |-> "timer", side |-> t.who, card |-> 0, src |-> t.src,
     emptied |-> t.emptied]

(***************************************************************************)
(* The state after the mount effect has run initGame.                      *)
(***************************************************************************)
Init ==
    \E k \in 1..NumShuffles :
        LET g == initGame(k)
        IN /\ deck = g.deck
           /\ playerHand = g.playerHand
           /\ aiHand = g.aiHand
           /\ discardPile = g.discardPile
           /\ currentSuit = g.currentSuit
           /\ turn = g.turn
           /\ status = g.status
           /\ showSuitSelector = g.showSuitSelector
           /\ message = g.message
           /\ isAiThinking = g.isAiThinking
           /\ timers = <<>>
           /\ last = Event("init", "mount", "none", 0)
           /\ clicks = 0

(***************************************************************************)
(* Clicks.  The suit-selection overlay covers the table while it is open.  *)
(***************************************************************************)
\* A click on a card of the player's hand: Card forwards it when isPlayable.
ClickCard ==
    \E i \in 1..Len(playerHand) :
        /\ ~showSuitSelector
        /\ turn = "player" /\ status = "playing" /\ canPlay(Cur, playerHand[i])
        /\ Commit(playCard(Cur, playerHand[i], "player"), timers,
                  Event("play", "click", "player", playerHand[i]))

\* The draw pile with an onClick that does not look at turn.
ClickDrawPileAnyTurn ==
    /\ ~showSuitSelector
    /\ status = "playing"
    /\ Commit(drawCard(Cur, "player"), timers,
              Event(IF Len(deck) = 0 THEN "skip" ELSE "draw", "click", "player",
                    IF Len(deck) = 0 THEN 0 ELSE deck[Len(deck)]))

\* A click on the draw pile.
ClickDrawPile ==
    /\ ~showSuitSelector
    /\ turn = "player" /\ status = "playing"
    /\ Commit(drawCard(Cur, "player"), timers,
              Event(IF Len(deck) = 0 THEN "skip" ELSE "draw", "click", "player",
                    IF Len(deck) = 0 THEN 0 ELSE deck[Len(deck)]))

\* A click on one of the four buttons of the suit selector (the game-over
\* dialog, when shown, lies over it).
ClickSuit ==
    \E s \in Suits :
        /\ showSuitSelector /\ status = "playing"
        /\ Commit(handleSuitSelect(Cur, s), timers, Event("suit", "click", "player", 0))

\* The clicks of a player who may click at any moment, MaxClicks times.
PlayerPlay == ClickCard /\ clicks < MaxClicks /\ clicks' = clicks + 1

PlayerDraw == ClickDrawPile /\ clicks < MaxClicks /\ clicks' = clicks + 1

SuitSelect == ClickSuit /\ clicks < MaxClicks /\ clicks' = clicks + 1

\* A click on the restart button (header) or on PLAY AGAIN (game-over dialog).
Restart ==
    \E k \in 1..NumShuffles :
        /\ clicks < MaxClicks
        /\ ~showSuitSelector \/ status # "playing"
        /\ Commit([set |-> initGame(k), timers |-> <<>>],
                  [i \in 1..Len(timers) |-> [timers[i] EXCEPT !.stale = TRUE]],
                  Event("restart", "click", "none", 0))
        /\ clicks' = clicks + 1

(***************************************************************************)
(* Timers.                                                                 *)
(***************************************************************************)
Due == {i \in 1..Len(timers) : timers[i].left = 0}

FirstDue == CHOOSE i \in Due : \A j \in Due : i <= j

Without(s, i) == SubSeq(s, 1, i - 1) \o SubSeq(s, i + 1, Len(s))

\* A "check" or "turn" callback fires.
FireHandOff ==
    /\ Due # {}
    /\ timers[FirstDue].kind # "ai"
    /\ LET t == timers[FirstDue]
           r == handOff(t)
       IN Commit(r, Without(timers, FirstDue),
                 TimerEvent(IF "status" \in DOMAIN r.set THEN "win" ELSE "handoff", t))
    /\ UNCHANGED clicks

\* The opponent's thinking timer fires.
FireAi ==
    /\ Due # {}
    /\ timers[FirstDue].kind = "ai"
    /\ LET r == aiDecide(timers[FirstDue].env)
       IN Commit(r, Without(timers, FirstDue), Event(r.op, "timer", "ai", r.card))
    /\ UNCHANGED clicks

\* 500 ms pass; no callback is due.
Tick ==
    /\ timers # <<>>
    /\ Due = {}
    /\ timers' = [i \in 1..Len(timers) |-> [timers[i] EXCEPT !.left = @ - 1]]
    /\ last' = Event("tick", "clock", "none", 0)
    /\ UNCHANGED <<deck, playerHand, aiHand, discardPile, currentSuit, turn, status,
                   showSuitSelector, message, isAiThinking, clicks>>

Next ==
    \/ PlayerPlay
    \/ PlayerDraw
    \/ SuitSelect
    \/ Restart
    \/ FireHandOff
    \/ FireAi
    \/ Tick

Spec == Init /\ [][Next]_vars

\* One game: everything but the restart button.
NextGame ==
    \/ PlayerPlay
    \/ PlayerDraw
    \/ SuitSelect
    \/ FireHandOff
    \/ FireAi
    \/ Tick

Game == Init /\ [][NextGame]_vars

\* A move is in flight: the hand-off or win check it scheduled is pending.
InFlight ==
    \E i \in 1..Len(timers) :
        timers[i].kind \in {"check", "turn"} /\ ~timers[i].stale

\* The clicks of a player who lets every hand-off delay pass before clicking
\* again (the opponent's thinking timers are not visible to the player),
\* MaxPacedClicks times.
PacedPlay == ~InFlight /\ ClickCard /\ clicks < MaxPacedClicks /\ clicks' = clicks + 1

PacedDraw == ~InFlight /\ ClickDrawPile /\ clicks < MaxPacedClicks /\ clicks' = clicks + 1

PacedSuit == ~InFlight /\ ClickSuit /\ clicks < MaxPacedClicks /\ clicks' = clicks + 1

NextPaced ==
    \/ PacedPlay
    \/ PacedDraw
    \/ PacedSuit
    \/ FireHandOff
    \/ FireAi
    \/ Tick

\* One game of a player who never clicks during a hand-off delay.
Paced == Init /\ [][NextPaced]_vars

\* Paced, with time passing and every pending callback eventually run.
FairPaced ==
    Init /\ [][NextPaced]_vars
         /\ WF_vars(Tick) /\ WF_vars(FireHandOff) /\ WF_vars(FireAi)

(***************************************************************************)
(* The claims.                                                             *)
(***************************************************************************)
Terminal == {"player_won", "ai_won"}

AllCards == deck \o playerHand \o aiHand \o discardPile

\* C1: every card id is in exactly one of deck, player hand, opponent hand
\* and discard pile: none twice, none missing.
C1_CardConservation ==
    /\ Len(AllCards) = NumCards
    /\ Range(AllCards) = Cards

\* C2: the win check scheduled by a play that left the hand of the side that
\* played empty never hands the turn over (it sets the status instead).
C2_WinDetected ==
    ~(last.op = "handoff" /\ last.src \in {"play", "eight"} /\ last.emptied)

\* C3: a play or draw of the opponent's decision procedure is applied only
\* in a state where Turn = opponent and Status = playing.
C3_AiActsOnOwnTurn ==
    [][(last'.by = "timer" /\ last'.side = "ai" /\ last'.op \in {"play", "draw"})
          => (turn = "ai" /\ status = "playing")]_vars

\* C4: a card appended to the discard pile by a play is playable in the
\* state in which the play is applied.
C4_PlayIsLegal ==
    [][last'.op = "play" => canPlay(Cur, last'.card)]_vars

\* C5: in a terminal state no step other than a restart changes the deck, a
\* hand or the discard pile.
C5_TerminalFreezesCards ==
    [][(status \in Terminal /\ last'.op # "restart")
          => UNCHANGED <<deck, playerHand, aiHand, discardPile>>]_vars

\* C6: while a move is in flight no other play or draw is applied.
C6_OneMoveInFlight ==
    [][InFlight => last'.op \notin {"play", "draw"}]_vars

\* C7: a callback that was pending when the game was restarted changes
\* nothing of the new game when it fires.
C7_StaleTimerIsNoOp ==
    [][(last'.by = "timer" /\ Due # {} /\ timers[FirstDue].stale)
          => UNCHANGED <<deck, playerHand, aiHand, discardPile, currentSuit,
                         turn, status>>]_vars

\* C8: a terminal Status keeps its value until a restart.
C8_StatusNeverReverts ==
    [][(status \in Terminal /\ last'.op # "restart") => status' = status]_vars

\* C9: when the win check of a non-Eight play, of an Eight played by the
\* opponent, or of the player's suit choice finds no winner, Turn becomes the
\* side other than the one that moved.
C9_TurnAlternation ==
    [][(last'.op = "handoff" /\ last'.src \in {"play", "eight", "suit"})
          => turn' = Other(last'.side)]_vars

\* The opponent's Eight has handed the turn to the player.
C9_Witness ==
    last.op = "handoff" /\ last.src = "eight" /\ last.side = "ai" /\ turn = "player"

\* C10: after the opponent played an Eight, Active Suit is a suit of maximal
\* count in the hand that remains, and Spades when nothing remains.
C10_AiSuitChoice ==
    (last.op = "play" /\ last.side = "ai" /\ RankOf(last.card) = EIGHT)
        => IF aiHand = <<>> THEN currentSuit = SPADES
           ELSE \A s \in Suits : SuitCount(aiHand, s) <= SuitCount(aiHand, currentSuit)

\* C11: while the suit-selection prompt is open Turn is player, and every
\* step other than the player's suit choice (or a restart) leaves Turn
\* player and the deck, both hands and the discard pile as they were.
C11_EightBlocksTurn ==
    [][(showSuitSelector /\ last'.op \notin {"suit", "restart"})
          => /\ turn = "player"
             /\ turn' = "player"
             /\ UNCHANGED <<deck, playerHand, aiHand, discardPile>>]_vars

\* C12: a player's draw moves the last deck card to the end of the player's
\* hand; when that card is not playable a hand-off to the opponent is
\* scheduled for the turn delay and sets Turn to opponent when it fires; when
\* it is playable, the step after the draw, unless it is another click of the
\* player, leaves Turn with the player.
C12_PlayerDrawAndTurn ==
    [][/\ (last'.op = "draw" /\ last'.by = "click")
            => /\ deck # <<>>
               /\ playerHand' = Append(playerHand, deck[Len(deck)])
               /\ deck' = SubSeq(deck, 1, Len(deck) - 1)
               /\ ~canPlay(Cur, deck[Len(deck)])
                     => \E i \in 1..Len(timers') :
                            /\ timers'[i].kind = "turn" /\ timers'[i].who = "player"
                            /\ timers'[i].to = "ai" /\ timers'[i].left = TurnDelay
       /\ (last'.op = "handoff" /\ last'.src = "draw" /\ last'.side = "player")
            => turn' = "ai"
       /\ (last.op = "draw" /\ last.by = "click" /\ canPlay(Cur, last.card)
               /\ last'.by # "click")
            => turn' = "player"]_vars

\* C13: a draw by either side that is applied while the deck holds no card
\* leaves the deck, both hands, the discard pile, Active Suit and Status as
\* they were, sets the deck-empty message and sets Turn to the other side.
C13_DeckEmptyDraw ==
    [][(last'.op \in {"draw", "skip"} /\ deck = <<>>)
          => /\ UNCHANGED <<deck, playerHand, aiHand, discardPile, currentSuit, status>>
             /\ message' = "deckEmpty"
             /\ turn' = Other(last'.side)]_vars

\* C14: immediately after initGame (on mount or on restart, whatever came
\* before) each hand holds HandSize cards, the discard pile holds one card
\* that is not an Eight, the deck holds all the other cards, the four
\* containers partition the cards, Active Suit is the suit of the discard
\* card, Turn = player, Status = playing, and the suit prompt and the
\* thinking flag are off.
C14_SetupPostcondition ==
    last.op \in {"init", "restart"}
        => /\ Len(playerHand) = HandSize
           /\ Len(aiHand) = HandSize
           /\ Len(discardPile) = 1
           /\ RankOf(discardPile[1]) # EIGHT
           /\ Len(deck) = NumCards - 2 * HandSize - 1
           /\ Len(AllCards) = NumCards
           /\ Range(AllCards) = Cards
           /\ currentSuit = SuitOf(discardPile[1])
           /\ turn = "player"
           /\ status = "playing"
           /\ ~showSuitSelector
           /\ ~isAiThinking

\* A restart with callbacks still pending, with a shuffle whose first card
\* after the deal is an Eight, so that the scan had to pass over it.
C14_Witness ==
    /\ last.op = "restart"
    /\ timers # <<>>
    /\ \E k \in 1..NumShuffles :
          /\ RankOf(shuffleDeck(createDeck, k)[2 * HandSize + 1]) = EIGHT
          /\ deck = initGame(k).deck
          /\ discardPile = initGame(k).discardPile

\* C15: when time passes and every pending callback eventually runs,
\* whenever Turn = opponent and Status = playing, eventually Turn = player
\* or Status is terminal.
C15_AiTurnEnds ==
    (turn = "ai" /\ status = "playing") ~> (turn = "player" \/ status \in Terminal)

\* The opponent, holding cards of which none is playable and facing an empty
\* deck, has skipped and the Turn is the player's.
C15_Witness ==
    /\ last.op = "noMoves" /\ last.side = "ai"
    /\ aiHand # <<>> /\ deck = <<>> /\ turn = "player"

\* C16: every step other than a restart leaves the discard pile as it was or
\* appends exactly one card to it.
C16_DiscardOnlyGrows ==
    [][last'.op # "restart"
          => \/ discardPile' = discardPile
             \/ \E c \in Cards : discardPile' = Append(discardPile, c)]_vars

\* C17: a draw (or deck-empty skip) by a click of the player is applied only
\* in a state with Turn = player and Status = playing, and a play by a click
\* only in such a state and with a card of the player's hand that is
\* playable there; in any other state the click runs no handler and is no
\* step.
C17_PlayerInputGating ==
    [][/\ (last'.by = "click" /\ last'.op \in {"draw", "skip"})
            => (turn = "player" /\ status = "playing")
       /\ (last'.by = "click" /\ last'.op = "play")
            => /\ turn = "player" /\ status = "playing"
               /\ last'.card \in Range(playerHand)
               /\ canPlay(Cur, last'.card)]_vars

\* A click of the player has played a card that is not an Eight.
C17_Witness ==
    /\ last.by = "click" /\ last.op = "play"
    /\ RankOf(last.card) # EIGHT
    /\ Top(discardPile) = last.card

\* The card of a rank and a suit.
CardOf(rank, suit) == CHOOSE c \in Cards : RankOf(c) = rank /\ SuitOf(c) = suit

\* C18: for every card, Active Suit and top discard card, canPlay is true
\* exactly when the card is an Eight, or its suit is Active Suit, or its rank
\* is the top card's rank; with Active Suit diamonds on a 7 the 7 of clubs
\* and the K of diamonds are playable, the K of clubs is not, every Eight is.
C18_LegalityPredicate ==
    /\ \A c \in Cards :
          canPlay(Cur, c) <=> \/ RankOf(c) = EIGHT
                              \/ SuitOf(c) = currentSuit
                              \/ RankOf(c) = RankOf(Top(discardPile))
    \* what follows reads no state cell: it is evaluated in the initial states
    /\ last.op = "init"
          => /\ \A s \in Suits, t \in Cards, c \in Cards :
                   canPlay([currentSuit |-> s, discardPile |-> <<t>>], c)
                       <=> \/ RankOf(c) = EIGHT
                           \/ SuitOf(c) = s
                           \/ RankOf(c) = RankOf(t)
             /\ \A t \in {CardOf("7", s) : s \in Suits} :
                   LET env == [currentSuit |-> "diamonds", discardPile |-> <<t>>]
                   IN /\ canPlay(env, CardOf("7", "clubs"))
                      /\ canPlay(env, CardOf("K", "diamonds"))
                      /\ ~canPlay(env, CardOf("K", "clubs"))
                      /\ \A s \in Suits : canPlay(env, CardOf(EIGHT, s))

\* Active Suit is diamonds on a 7, and the player, whose turn it is, holds a
\* card that is playable and a card that is not.
C18_Witness ==
    /\ currentSuit = "diamonds"
    /\ RankOf(Top(discardPile)) = "7"
    /\ turn = "player" /\ status = "playing"
    /\ \E i, j \in 1..Len(playerHand) :
          canPlay(Cur, playerHand[i]) /\ ~canPlay(Cur, playerHand[j])

\* C19: when the thinking timer fires, the opponent plays a card exactly
\* when its hand holds a card that is playable in the state the callback is
\* applied to, and the card it plays is the first playable card of the hand
\* that is not an Eight, or the first playable Eight when there is none.
C19_AiCardChoice ==
    [][(last'.by = "timer" /\ last'.side = "ai" /\ last'.op \in {"play", "draw", "noMoves"})
          => LET playableCards == Playable(Cur, aiHand)
                 nonEights == NonEights(playableCards)
             IN /\ last'.op = "play" <=> playableCards # <<>>
                /\ last'.op = "play"
                      => last'.card = IF nonEights # <<>> THEN nonEights[1]
                                      ELSE playableCards[1]]_vars

\* The opponent's thinking timer is pending.
Thinking == \E i \in 1..Len(timers) : timers[i].kind = "ai"

\* C20: a play or draw of the opponent starts no further thinking timer (the
\* opponent makes one move and then yields), and no thinking timer is
\* pending in a state where the Turn has been handed to the player.
C20_OneAiMovePerTurn ==
    [][/\ (last'.side = "ai" /\ last'.op \in {"play", "draw"}) => ~Thinking'
       /\ (turn' = "player" /\ status' = "playing") => ~Thinking']_vars

\* C21: in every state, when the top card of the discard pile is not an
\* Eight, Active Suit is the suit of that card (Active Suit differs from the
\* top card's suit only on an Eight).
C21_ActiveSuitTracksPile ==
    RankOf(Top(discardPile)) # EIGHT => currentSuit = SuitOf(Top(discardPile))

\* C22: in every state, Status = player_won only with an empty player hand
\* and Status = ai_won only with an empty opponent hand.
C22_TerminalMatchesHands ==
    /\ status = "player_won" => playerHand = <<>>
    /\ status = "ai_won" => aiHand = <<>>

====
